---- MODULE Spec2Model ----
(***************************************************************************)
(* Template synchronisation: the optimistic-locking TemplateService of     *)
(* SOLUTION_SIMPLIFIED.ts running against the store of test-utils          *)
(* (MockDatabase reached through createMockSupabase).                      *)
(*                                                                         *)
(* Every `await` of the service is a scheduling point: the store handles   *)
(* a request in one atomic step (the timer callback of the query           *)
(* builder's then()), and the caller's continuation runs in a later step.  *)
(***************************************************************************)
EXTENDS Integers, Sequences, FiniteSets, TLC

\* ---------------------------------------------------------------- bounds
MaxNum == 6
MaxExt == 2
MaxSvcCalls == 2
MaxGetCalls == 2
MaxBgRuns == 1
MaxTicks == 1
MaxSaves == 2

\* The interactive users of the scenarios (User A, User B, User C), each
\* making one updateTemplate call, and a reader making getTemplate calls
\* one after the other.
Updaters == {"A", "B", "C"}
Readers == {"R"}

\* ------------------------------------------------------------- constants
\* A budget of three attempts.
MaxRetriesThree == 2 + 1
MAX_RETRIES == 2
BACKOFF_STEP_MS == 100
\* The cooldown after a user edit during which the background job is
\* expected to leave the record alone ("user data < 5 seconds old").
cooldownMs == 5000
\* The age of the last user edit the suite stores for an "old template".
OldEditAgeMs == 10000
\* The expected retry delays: ~100 ms, ~200 ms, ~400 ms.
baseBackoffMs == 100
backoffMultiplier == 2
\* The time an update may take ("must complete within 3 seconds").
deadlineMs == 3000
\* The step of the clock: one cooldown.
TickMs == cooldownMs

\* The id the callers use: the template the tests' beforeEach stores.
Ids == {"t1"}

\* createTestTemplate(overrides): the fields the service's callers touch.
\* The simplified suite overrides version with '1', the full suite keeps
\* the fixture's '1.0.0'.
InitVersions == {"1", "1.0.0"}

\* sections and field_definitions are object references (the objects
\* themselves live in fdHeap), updated_at is new Date() at construction.
createTestTemplate(v) ==
    [id |-> "t1", name |-> "Original Name",
     description |-> "Original Description",
     sections |-> "sections0", field_definitions |-> "fd0",
     version |-> v, updated_at |-> 0]

\* The partial updates callers pass to updateTemplate: user A renames,
\* user B edits the description or renames too, user C renames or
\* replaces the sections.
UpdateChoices(p) ==
    IF p = "A" THEN { [name |-> "A"] }
    ELSE IF p = "B" THEN { [description |-> "B"], [name |-> "B"] }
    ELSE { [name |-> "C"], [sections |-> "sectionsC"] }

\* ------------------------------------------------------- JavaScript bits
\* A JS Map: a function whose domain is the set of keys present.
EmptyMap == [k \in {} |-> 0]
MapHas(m, k) == k \in DOMAIN m
MapSet(m, k, v) == [x \in (DOMAIN m) \cup {k} |-> IF x = k THEN v ELSE m[x]]
\* Map.delete that leaves the entry in place.
MapDeleteNoop(m, k) == m
MapDelete(m, k) == [x \in (DOMAIN m) \ {k} |-> m[x]]

\* A spread in which the earlier object's keys win.
SpreadKeepFirst(a, b) ==
    [f \in (DOMAIN a) \cup (DOMAIN b) |-> IF f \in DOMAIN a THEN a[f] ELSE b[f]]
\* Object spread { ...a, ...b }: b's keys win, a's other keys stay.
Spread(a, b) ==
    [f \in (DOMAIN a) \cup (DOMAIN b) |-> IF f \in DOMAIN b THEN b[f] ELSE a[f]]

\* Truthiness of a string: only the empty string is falsy.
Truthy(s) == s # ""

\* Number(s) for the version tokens in play: a decimal numeral converts to
\* its value, the empty string to 0, anything else ('1.0.0', 'NaN') to NaN.
NaN == [nan |-> TRUE, val |-> 0]
Num(n) == [nan |-> FALSE, val |-> n]
IsNumeral(s) == \E n \in 0..MaxNum : ToString(n) = s
JsNumber(s) ==
    IF s = "" THEN Num(0)
    ELSE IF IsNumeral(s) THEN Num(CHOOSE n \in 0..MaxNum : ToString(n) = s)
    ELSE NaN
\* x + 1 on JS numbers: NaN + 1 is NaN.
JsPlusOne(x) == IF x.nan THEN NaN ELSE Num(x.val + 1)
\* String(x)
JsString(x) == IF x.nan THEN "NaN" ELSE ToString(x.val)

\* newVersion = String(Number(current.version || '0') + 1)
NewVersion(currentVersion) ==
    JsString(JsPlusOne(JsNumber(IF Truthy(currentVersion) THEN currentVersion ELSE "0")))

\* ---------------------------------------------------------- MockDatabase
\* MockDatabase.update's guard: the record exists and, when a truthy
\* version condition is given, the stored version is identical to it.
UpdateApplies(storage, id, where) ==
    /\ MapHas(storage, id)
    /\ ~ ( /\ "version" \in DOMAIN where
           /\ Truthy(where.version)
           /\ storage[id].version # where.version )

\* MockDatabase.update: set(id, { ...existing, ...updates }) when it applies.
DbUpdate(storage, id, values, where) ==
    IF UpdateApplies(storage, id, where)
    THEN MapSet(storage, id, Spread(storage[id], values))
    ELSE storage

\* Query results { data, error } of the mock client.
Ok(rec, s) == [ok |-> TRUE, data |-> rec, code |-> "", seq |-> s]
Err(c) == [ok |-> FALSE, data |-> EmptyMap, code |-> c, seq |-> 0]
NoResp == [ok |-> FALSE, data |-> EmptyMap, code |-> "none", seq |-> 0]

\* then(), select branch: result = db.get(id); error when nothing is stored.
SelectResult(storage, seqOf, id) ==
    IF MapHas(storage, id) THEN Ok(storage[id], seqOf[id]) ELSE Err("NotFound")

\* then(), update branch: whereConditions are the eq() columns other than
\* id; success = db.update(id, values, whereConditions).
Applied(storage, req) == UpdateApplies(storage, req.id, req.where)

\* A store whose answer to a write is lost: the caller gets an error
\* whether or not the write was applied.
WriteResultLost(storage, n, req) == Err("error")
\* then(), update branch: result = db.get(id) on success, else the
\* PGRST116 'No rows updated' error.
WriteResult(storage, n, req) ==
    IF Applied(storage, req)
    THEN Ok(DbUpdate(storage, req.id, req.values, req.where)[req.id], n + 1)
    ELSE Err("PGRST116")

\* --------------------------------------------------------------- state
VARIABLES
    db,        \* MockDatabase.storage
    dbSeq,     \* history: index of the commit that produced db[id]
    commits,   \* history: number of committed writes so far
    held,      \* history: the version tokens each id's record has held
    cache,     \* TemplateService.cache (SOLUTION_SIMPLIFIED)
    cacheMeta, \* history: per cache entry, seq of its data and install time
    upc,       \* updateTemplate call: position
    uargs,     \* updateTemplate call: (templateId, updates)
    attempts,  \* updateTemplate call: local `attempts`
    ureq,      \* updateTemplate call: the conditional write in flight
    uresp,     \* updateTemplate call: last query result delivered
    uresult,   \* updateTemplate call: value returned
    ulog,      \* history of the call: writes issued, conflicts, commit index
    gpc,       \* getTemplate call: position
    gargs,     \* getTemplate call: templateId
    gresp,     \* getTemplate call: query result delivered
    gresult,   \* getTemplate call: value returned
    gfloor,    \* history: newest commit reported successful at call time
    gcalls,    \* number of getTemplate calls the reader has made
    greads,    \* history: store reads served for the current getTemplate call
    svcCache,  \* services/TemplateService.cache
    svcpc,     \* services/TemplateService.updateTemplate: position
    svcReq,    \* services/TemplateService.updateTemplate: write in flight
    svcResp,   \* services/TemplateService.updateTemplate: query result
    svcResult, \* services/TemplateService.updateTemplate: value returned
    svcCalls,  \* number of calls made on services/TemplateService
    ext,       \* number of steps taken by the store's other users
    bpc,       \* processTemplateFields run: position
    bid,       \* processTemplateFields run: templateId
    btemplate, \* processTemplateFields run: the record it read
    breq,      \* processTemplateFields run: the write in flight
    blog,      \* history of the run: what it read, wrote and found
    bruns,     \* number of processTemplateFields runs started
    fdHeap,    \* the field_definitions objects: their `processed` mark
    now,       \* the clock new Date() / Date.now() reads, in ms
    mgr,       \* TemplateManager: its React state
    editor,    \* the TemplateEditor the manager renders, and its React state
    save,      \* handleSave: its position, what its closure holds, its result
    loadpc     \* the loadTemplates call of the manager's mount effect

vars == <<db, dbSeq, commits, held, cache, cacheMeta, upc, uargs, attempts,
          ureq, uresp, uresult, ulog, gpc, gargs, gresp, gresult, gfloor,
          gcalls, greads, svcCache, svcpc, svcReq, svcResp, svcResult, svcCalls, ext,
          bpc, bid, btemplate, breq, blog, bruns, fdHeap, now,
          mgr, editor, save, loadpc>>

storeVars == <<db, dbSeq, commits, held>>
cacheVars == <<cache, cacheMeta>>
updVars == <<upc, uargs, attempts, ureq, uresp, uresult, ulog>>
getVars == <<gpc, gargs, gresp, gresult, gfloor, gcalls, greads>>
svcVars == <<svcCache, svcpc, svcReq, svcResp, svcResult, svcCalls>>
bgVars == <<bpc, bid, btemplate, breq, blog, bruns>>
worldVars == <<fdHeap, now>>
uiVars == <<mgr, editor, save, loadpc>>

NoArgs == [id |-> "", updates |-> EmptyMap]
NoReq == [id |-> "", values |-> EmptyMap, where |-> EmptyMap]
NoResult == [returned |-> FALSE, success |-> FALSE, data |-> EmptyMap]
NoLog == [writes |-> 0, conflicts |-> 0, commit |-> 0, expected |-> <<>>,
          issued |-> <<>>, reads |-> 0, evicted |-> FALSE, delays |-> <<>>,
          startedAt |-> 0, waited |-> <<>>,
          committed |-> 0, stored |-> EmptyMap]

\* The field_definitions objects in play: the one of each fixture built
\* by createTestTemplate, and the one a user passes to updateTemplate.
FixtureFd(n) == "fd" \o ToString(n)
UserFd == "fdU"
FdObjs == { FixtureFd(n) : n \in 0..MaxExt } \cup {UserFd}
Unprocessed == [processed |-> FALSE, processedAt |-> 0]

\* History of one processTemplateFields run.
NoBgLog == [reads |-> 0, writes |-> 0, readAt |-> 0, commit |-> 0,
            recent |-> FALSE, returned |-> "none"]

\* TemplateManager before its first load resolves: useState([]),
\* useState(null), and isLoading set by the mount effect's loadTemplates.
NoManager == [templates |-> <<>>, selectedTemplate |-> EmptyMap,
              isLoading |-> TRUE, error |-> ""]
\* No TemplateEditor is rendered.
NoEditor == [mounted |-> FALSE, editedTemplate |-> EmptyMap,
             isUpdating |-> FALSE, updateMessage |-> ""]
NoUpdateResult == [success |-> FALSE, data |-> EmptyMap, newVersion |-> "",
                   error |-> ""]
\* No handleSave call is running. alive: the editor that issued the save
\* is still the one rendered; saves counts the calls.
NoSave == [pc |-> "idle", alive |-> FALSE, editedTemplate |-> EmptyMap,
           updates |-> EmptyMap, result |-> NoUpdateResult, saves |-> 0]

\* The history kept per call stops growing one past the retry budget.
LogCap == MAX_RETRIES + 1
Bump(n) == IF n < LogCap THEN n + 1 ELSE n
Record(s, x) == IF Len(s) < LogCap THEN Append(s, x) ELSE s

\* Everything but the service's cache, after the suites' beforeEach.
InitOther ==
    /\ \E v \in InitVersions : db = MapSet(EmptyMap, "t1", createTestTemplate(v))
    /\ dbSeq = [i \in Ids |-> 0]
    /\ commits = 0
    /\ held = [i \in Ids |-> IF MapHas(db, i) THEN {db[i].version} ELSE {}]
    /\ upc = [p \in Updaters |-> "idle"]
    /\ uargs = [p \in Updaters |-> NoArgs]
    /\ attempts = [p \in Updaters |-> 0]
    /\ ureq = [p \in Updaters |-> NoReq]
    /\ uresp = [p \in Updaters |-> NoResp]
    /\ uresult = [p \in Updaters |-> NoResult]
    /\ ulog = [p \in Updaters |-> NoLog]
    /\ gpc = [r \in Readers |-> "idle"]
    /\ gargs = [r \in Readers |-> ""]
    /\ gresp = [r \in Readers |-> NoResp]
    /\ gresult = [r \in Readers |-> NoResult]
    /\ gfloor = [r \in Readers |-> 0]
    /\ gcalls = [r \in Readers |-> 0]
    /\ greads = [r \in Readers |-> 0]
    /\ svcCache = EmptyMap
    /\ svcpc = "idle"
    /\ svcReq = NoReq
    /\ svcResp = NoResp
    /\ svcResult = NoResult
    /\ svcCalls = 0
    /\ ext = 0
    /\ bpc = "idle"
    /\ bid = ""
    /\ btemplate = EmptyMap
    /\ breq = NoReq
    /\ blog = NoBgLog
    /\ bruns = 0
    /\ fdHeap = [o \in FdObjs |-> Unprocessed]
    /\ now = 0
    /\ mgr = NoManager
    /\ editor = NoEditor
    /\ save = NoSave
    /\ loadpc = "await"

\* A freshly constructed service: private cache = new Map()
Init ==
    /\ InitOther
    /\ cache = EmptyMap
    /\ cacheMeta = EmptyMap

\* A service whose cache getTemplate has filled for some of the ids
\* t1..t3, each with a snapshot of some version of that id's record.
CacheIds == {"t1", "t2", "t3"}
SnapVersions == InitVersions \cup {"2"}
Snapshot(id, v) == Spread(createTestTemplate(v), [id |-> id])
InitCached ==
    /\ InitOther
    /\ \E S \in SUBSET CacheIds : \E f \in [S -> SnapVersions] :
          cache = [k \in S |-> Snapshot(k, f[k])]
    /\ cacheMeta = [k \in DOMAIN cache |-> [seq |-> 0, at |-> 0]]

\* The store executes one update request (one timer callback of then()).
StoreWrite(req) ==
    /\ db' = DbUpdate(db, req.id, req.values, req.where)
    /\ IF Applied(db, req)
       THEN /\ commits' = commits + 1
            /\ dbSeq' = [dbSeq EXCEPT ![req.id] = commits + 1]
            /\ held' = [held EXCEPT ![req.id] = @ \cup {db'[req.id].version}]
       ELSE UNCHANGED <<commits, dbSeq, held>>

\* ------------------------------------------- TemplateService.updateTemplate
Failure == [returned |-> TRUE, success |-> FALSE, data |-> EmptyMap]
Success(rec) == [returned |-> TRUE, success |-> TRUE, data |-> rec]

\* attempts counted twice per iteration: the call gives up after one try.
NextAttemptTwice(a) == a + 2
\* attempts never counted: the loop condition stays true.
NextAttemptStuck(a) == a
\* attempts++ at the top of the loop body
NextAttempt(a) == a + 1

\* A loop that, after a backoff, re-issues the conflicting write instead
\* of reading again.
LoopTopNoReread(p, a) ==
    IF a < MAX_RETRIES
    THEN /\ attempts' = [attempts EXCEPT ![p] = NextAttempt(a)]
         /\ upc' = [upc EXCEPT ![p] = IF upc[p] = "sleep" THEN "update" ELSE "select"]
         /\ UNCHANGED uresult
    ELSE /\ attempts' = [attempts EXCEPT ![p] = a]
         /\ upc' = [upc EXCEPT ![p] = "done"]
         /\ uresult' = [uresult EXCEPT ![p] = Failure]
\* while (attempts < MAX_RETRIES) { attempts++; ... await select ... }
\* and the return { success: false } behind the loop.
LoopTop(p, a) ==
    IF a < MAX_RETRIES
    THEN /\ attempts' = [attempts EXCEPT ![p] = NextAttempt(a)]
         /\ upc' = [upc EXCEPT ![p] = "select"]
         /\ UNCHANGED uresult
    ELSE /\ attempts' = [attempts EXCEPT ![p] = a]
         /\ upc' = [upc EXCEPT ![p] = "done"]
         /\ uresult' = [uresult EXCEPT ![p] = Failure]

\* A catch block that rethrows: the promise is settled without a result.
CatchRethrow(p) ==
    /\ upc' = [upc EXCEPT ![p] = "done"]
    /\ uresult' = [uresult EXCEPT ![p] = NoResult]
    /\ UNCHANGED attempts
\* catch (error) { if (attempts >= MAX_RETRIES) return failure } and,
\* otherwise, falling out of the catch into the next loop iteration.
Catch(p) ==
    IF attempts[p] >= MAX_RETRIES
    THEN /\ upc' = [upc EXCEPT ![p] = "done"]
         /\ uresult' = [uresult EXCEPT ![p] = Failure]
         /\ UNCHANGED attempts
    ELSE LoopTop(p, attempts[p])

\* The update query the service builds from the record it read:
\* .update({ ...updates, version: newVersion, updated_at: new Date() })
\* .eq('id', templateId).eq('version', current.version)
\* The version check written against the new version instead of the one read.
UpdateRequestWrongEq(id, updates, current) ==
    [id |-> id,
     values |-> Spread(updates, [version |-> NewVersion(current.version),
                                 updated_at |-> now]),
     where |-> [version |-> NewVersion(current.version)]]
UpdateRequest(id, updates, current) ==
    [id |-> id,
     values |-> Spread(updates, [version |-> NewVersion(current.version),
                                 updated_at |-> now]),
     where |-> [version |-> current.version]]

\* A backoff one step longer.
BackoffMsLonger(a) == BACKOFF_STEP_MS * (a + 1)
\* The backoff the call waits after its attempts-th attempt conflicted.
BackoffMs(a) == BACKOFF_STEP_MS * a

Last(s) == s[Len(s)]

\* History: when this step starts an attempt of p's call, the delay d the
\* call waited since its previous attempt ended.
NoteAttempt(log, p, d) ==
    IF attempts'[p] # attempts[p]
    THEN [log EXCEPT ![p].waited = Record(@, d)]
    ELSE log

\* A caller invokes updateTemplate(templateId, updates).
UCall(p, id, updates) ==
    /\ upc[p] = "idle"
    /\ uargs' = [uargs EXCEPT ![p] = [id |-> id, updates |-> updates]]
    /\ LoopTop(p, 0)
    /\ ulog' = NoteAttempt([ulog EXCEPT ![p].startedAt = now], p, 0)
    /\ UNCHANGED <<uiVars, bgVars, worldVars, storeVars, cacheVars, getVars, svcVars, ext, ureq, uresp>>

\* The store serves the call's select('*').eq('id', id).single() and the
\* call resumes with { data: current, error: fetchError }: it throws on
\* fetchError, else builds and issues the conditional write.  The
\* continuation touches nothing but the call's locals, so it is part of
\* the step that delivers the result.
USelect(p) ==
    /\ upc[p] = "select"
    /\ LET r == SelectResult(db, dbSeq, uargs[p].id)
       IN  /\ uresp' = [uresp EXCEPT ![p] = r]
           /\ IF r.ok
              THEN /\ ureq' = [ureq EXCEPT ![p] = UpdateRequest(uargs[p].id, uargs[p].updates, r.data)]
                   /\ upc' = [upc EXCEPT ![p] = "update"]
                   /\ UNCHANGED <<uiVars, attempts, uresult>>
              ELSE /\ Catch(p)
                   /\ UNCHANGED ureq
    /\ ulog' = NoteAttempt(
                 [ulog EXCEPT
                    ![p].reads = Bump(@),
                    ![p].issued = IF MapHas(db, uargs[p].id) THEN Record(@, commits) ELSE @],
                 p, 0)
    /\ UNCHANGED <<uiVars, bgVars, worldVars, storeVars, cacheVars, getVars, svcVars, ext, uargs>>

\* The store serves the call's conditional write: then(), update branch.
UStoreUpdate(p) ==
    /\ upc[p] = "update"
    /\ StoreWrite(ureq[p])
    /\ uresp' = [uresp EXCEPT ![p] = WriteResult(db, commits, ureq[p])]
    /\ ulog' = [ulog EXCEPT
                  ![p].writes = Bump(@),
                  ![p].expected = Record(@, ureq[p].where.version),
                  ![p].conflicts = IF Applied(db, ureq[p]) THEN @ ELSE Bump(@),
                  ![p].commit = IF Applied(db, ureq[p]) THEN commits + 1 ELSE @,
                  ![p].committed = IF Applied(db, ureq[p]) THEN Bump(@) ELSE @,
                  ![p].stored = IF Applied(db, ureq[p]) THEN db'[ureq[p].id] ELSE @]
    /\ upc' = [upc EXCEPT ![p] = "updated"]
    /\ UNCHANGED <<uiVars, bgVars, worldVars, cacheVars, getVars, svcVars, ext, uargs, attempts, ureq, uresult>>

\* The call resumes with the write's result.
UAfterUpdate(p) ==
    /\ upc[p] = "updated"
    /\ IF uresp[p].ok
       THEN \* this.cache.delete(templateId); return { success: true, data }
            /\ cache' = MapDelete(cache, uargs[p].id)
            /\ cacheMeta' = MapDelete(cacheMeta, uargs[p].id)
            /\ upc' = [upc EXCEPT ![p] = "done"]
            /\ uresult' = [uresult EXCEPT ![p] = Success(uresp[p].data)]
            /\ ulog' = [ulog EXCEPT ![p].evicted = MapHas(cache, uargs[p].id)]
            /\ UNCHANGED attempts
       ELSE /\ IF uresp[p].code = "PGRST116" /\ attempts[p] < MAX_RETRIES
               THEN \* await this.sleep(100 * attempts); continue
                    /\ upc' = [upc EXCEPT ![p] = "sleep"]
                    /\ ulog' = [ulog EXCEPT ![p].delays = Record(@, BackoffMs(attempts[p]))]
                    /\ UNCHANGED <<uiVars, attempts, uresult>>
               ELSE \* throw updateError
                    /\ Catch(p)
                    /\ ulog' = NoteAttempt(ulog, p, 0)
            /\ UNCHANGED cacheVars
    /\ UNCHANGED <<uiVars, bgVars, worldVars, storeVars, getVars, svcVars, ext, uargs, ureq, uresp>>

\* The backoff timer fires and the loop goes round.
USleepDone(p) ==
    /\ upc[p] = "sleep"
    /\ LoopTop(p, attempts[p])
    /\ ulog' = NoteAttempt(ulog, p, Last(ulog[p].delays))
    /\ UNCHANGED <<uiVars, bgVars, worldVars, storeVars, cacheVars, getVars, svcVars, ext, uargs, ureq, uresp>>

\* ---------------------------------------------- TemplateService.getTemplate
\* The newest commit some updateTemplate(id) call has reported successful.
ReportedCommit(id) ==
    LET S == { ulog[p].commit : p \in { q \in Updaters :
                   /\ uresult[q].returned /\ uresult[q].success
                   /\ uargs[q].id = id } }
    IN  IF S = {} THEN 0 ELSE CHOOSE m \in S : \A n \in S : n <= m

\* getTemplate(templateId) up to its first await: a cache hit returns the
\* cached value, a miss issues the select.
GCall(r, id) ==
    /\ gpc[r] \in {"idle", "done"}
    /\ gcalls[r] < MaxGetCalls
    /\ gcalls' = [gcalls EXCEPT ![r] = @ + 1]
    /\ greads' = [greads EXCEPT ![r] = 0]
    /\ gargs' = [gargs EXCEPT ![r] = id]
    /\ gfloor' = [gfloor EXCEPT ![r] = ReportedCommit(id)]
    /\ IF MapHas(cache, id)
       THEN /\ gpc' = [gpc EXCEPT ![r] = "done"]
            /\ gresult' = [gresult EXCEPT ![r] = Success(cache[id])]
            /\ gresp' = [gresp EXCEPT ![r] = Ok(cache[id], cacheMeta[id].seq)]
       ELSE /\ gpc' = [gpc EXCEPT ![r] = "select"]
            /\ gresult' = [gresult EXCEPT ![r] = NoResult]
            /\ gresp' = [gresp EXCEPT ![r] = NoResp]
    /\ UNCHANGED <<uiVars, bgVars, worldVars, storeVars, cacheVars, updVars, svcVars, ext>>

\* The store serves the reader's select.
GStoreSelect(r) ==
    /\ gpc[r] = "select"
    /\ gresp' = [gresp EXCEPT ![r] = SelectResult(db, dbSeq, gargs[r])]
    /\ gpc' = [gpc EXCEPT ![r] = "selected"]
    /\ greads' = [greads EXCEPT ![r] = @ + 1]
    /\ UNCHANGED <<uiVars, bgVars, worldVars, storeVars, cacheVars, updVars, svcVars, ext, gargs, gresult, gfloor, gcalls>>

\* getTemplate returning the record it read without caching it.
GAfterSelectNoInstall(r) ==
    /\ gpc[r] = "selected"
    /\ gresult' = [gresult EXCEPT ![r] = IF gresp[r].ok THEN Success(gresp[r].data)
                                                      ELSE Failure]
    /\ gpc' = [gpc EXCEPT ![r] = "done"]
    /\ UNCHANGED <<uiVars, bgVars, worldVars, storeVars, cacheVars, updVars, svcVars, ext,
                   gargs, gresp, gfloor, gcalls, greads>>
\* getTemplate that throws the select's error (if (error) throw error).
GAfterSelectThrows(r) ==
    /\ gpc[r] = "selected"
    /\ IF gresp[r].ok
       THEN /\ cache' = MapSet(cache, gargs[r], gresp[r].data)
            /\ cacheMeta' = MapSet(cacheMeta, gargs[r],
                                   [seq |-> gresp[r].seq, at |-> commits])
            /\ gresult' = [gresult EXCEPT ![r] = Success(gresp[r].data)]
       ELSE /\ gresult' = [gresult EXCEPT ![r] = NoResult]
            /\ UNCHANGED cacheVars
    /\ gpc' = [gpc EXCEPT ![r] = "done"]
    /\ UNCHANGED <<uiVars, bgVars, worldVars, storeVars, updVars, svcVars, ext,
                   gargs, gresp, gfloor, gcalls, greads>>
\* getTemplate resumes: null on error, else cache.set(id, data); return data.
GAfterSelect(r) ==
    /\ gpc[r] = "selected"
    /\ IF gresp[r].ok
       THEN /\ cache' = MapSet(cache, gargs[r], gresp[r].data)
            /\ cacheMeta' = MapSet(cacheMeta, gargs[r],
                                   [seq |-> gresp[r].seq, at |-> commits])
            /\ gresult' = [gresult EXCEPT ![r] = Success(gresp[r].data)]
       ELSE /\ gresult' = [gresult EXCEPT ![r] = Failure]
            /\ UNCHANGED cacheVars
    /\ gpc' = [gpc EXCEPT ![r] = "done"]
    /\ UNCHANGED <<uiVars, bgVars, worldVars, storeVars, updVars, svcVars, ext, gargs, gresp, gfloor, gcalls, greads>>

\* ------------------------------- services/TemplateService.updateTemplate
\* incrementVersion: split('.') and bump the third part;
\* `${parts[0]}.${parts[1]}.${patch}`.
SemVer(a, b, c) == ToString(a) \o "." \o ToString(b) \o "." \o ToString(c)
IsSemVer(v) == \E a, b, c \in 0..MaxNum : v = SemVer(a, b, c)
incrementVersion(v) ==
    IF IsSemVer(v)
    THEN LET t == CHOOSE t \in (0..MaxNum) \X (0..MaxNum) \X (0..MaxNum) :
                      v = SemVer(t[1], t[2], t[3])
         IN  SemVer(t[1], t[2], t[3] + 1)
    ELSE \* a token without dots: parts[1] and parts[2] are undefined
         v \o ".undefined.1"

\* const currentVersion = cachedEntry?.version (undefined when no entry;
\* the empty string stands for undefined: both are falsy)
CurrentVersion(id) == IF MapHas(svcCache, id) THEN svcCache[id].version ELSE ""

\* updateData and the query .update(updateData).eq('version', currentVersion || '')
SvcRequest(id, updates) ==
    LET cv == CurrentVersion(id)
    IN  [id |-> id,
         values |-> Spread(updates,
                      [updated_at |-> now,
                       version |-> IF Truthy(cv) THEN incrementVersion(cv) ELSE "1.0.0"]),
         where |-> [version |-> IF Truthy(cv) THEN cv ELSE ""]]

\* The messages of the store's errors: 'No rows updated' for PGRST116,
\* else the message of the error then() caught.
ErrMessage(c) == IF c = "PGRST116" THEN "No rows updated" ELSE c

\* The messages of errors then() may catch.
FaultMessages == {"connection lost", "version check failed"}

\* error.message?.includes('version')
IncludesVersion(msg) == msg \in {"version check failed"}

\* The error updateTemplate throws to its own catch block.
SvcError(resp) ==
    IF IncludesVersion(ErrMessage(resp.code))
    THEN [name |-> "VersionConflictError",
          message |-> "Template version conflict detected"]
    ELSE [name |-> "UpdateFailedError", message |-> ErrMessage(resp.code)]

\* catch: return { success: false, error }
SvcFailure(err) ==
    [returned |-> TRUE, success |-> FALSE, data |-> EmptyMap, error |-> err]

SvcUpdates == { [name |-> "S"] }

\* updateTemplate up to its await, on a service constructed with a client.
SvcCall(id, updates) ==
    /\ svcpc \in {"idle", "done"}
    /\ svcCalls < MaxSvcCalls
    /\ svcCalls' = svcCalls + 1
    /\ svcReq' = SvcRequest(id, updates)
    /\ svcpc' = "update"
    /\ svcResult' = NoResult
    /\ UNCHANGED <<uiVars, bgVars, worldVars, storeVars, cacheVars, updVars, getVars, ext, svcCache, svcResp>>

\* The store serves the service's update.
SvcStoreUpdate ==
    /\ svcpc = "update"
    /\ StoreWrite(svcReq)
    /\ svcResp' = WriteResult(db, commits, svcReq)
    /\ svcpc' = "updated"
    /\ UNCHANGED <<uiVars, bgVars, worldVars, cacheVars, updVars, getVars, ext, svcCache, svcReq, svcResult, svcCalls>>

\* then() resolves the service's write with the error it caught.
SvcStoreFault(msg) ==
    /\ svcpc = "update"
    /\ ext < MaxExt
    /\ ext' = ext + 1
    /\ svcResp' = Err(msg)
    /\ svcpc' = "updated"
    /\ UNCHANGED <<uiVars, bgVars, worldVars, storeVars, cacheVars, updVars, getVars, svcCache, svcReq, svcResult, svcCalls>>

\* The entry cache.set stores after a confirmed write.
SvcEntry == [data |-> svcResp.data, version |-> svcReq.values.version,
             timestamp |-> now]

\* The cache written whatever the store answered.
SvcCacheAfterEager == MapSet(svcCache, svcReq.id, SvcEntry)
\* The cache when updateTemplate resumes: cache.set after a confirmed
\* write, nothing on the path to the catch block.
SvcCacheAfter ==
    IF svcResp.ok THEN MapSet(svcCache, svcReq.id, SvcEntry) ELSE svcCache

\* updateTemplate resumes: cache.set on success, { success: false, error }
\* on error.
SvcAfterUpdate ==
    /\ svcpc = "updated"
    /\ svcCache' = SvcCacheAfter
    /\ svcResult' = IF svcResp.ok THEN Success(svcResp.data)
                    ELSE SvcFailure(SvcError(svcResp))
    /\ svcpc' = "done"
    /\ UNCHANGED <<uiVars, bgVars, worldVars, storeVars, cacheVars, updVars, getVars, ext, svcReq, svcResp, svcCalls>>

\* ---------------------------------------------- TemplateService.clearCache
\* if (templateId) this.cache.delete(templateId); else this.cache.clear();
\* (the empty string stands for an omitted argument too: both are falsy)
clearCache(m, templateId) ==
    IF Truthy(templateId) THEN MapDelete(m, templateId) ELSE EmptyMap

ClearCache(templateId) ==
    /\ cache' = clearCache(cache, templateId)
    /\ cacheMeta' = clearCache(cacheMeta, templateId)
    /\ UNCHANGED <<uiVars, bgVars, worldVars, storeVars, updVars, getVars, svcVars, ext>>

\* --------------------------------------------- the store's other users
\* The versions another writer may store with db.set (the suite resets the
\* version to the old '1').
ExtVersions == {"1"}

\* db.set(id, template) by a writer outside the service, with a version
\* of its choosing.
DbSet(id, v) ==
    /\ ext < MaxExt
    /\ MapHas(db, id)
    /\ ext' = ext + 1
    /\ db' = MapSet(db, id, Spread(db[id], [version |-> v]))
    /\ commits' = commits + 1
    /\ dbSeq' = [dbSeq EXCEPT ![id] = commits + 1]
    /\ held' = [held EXCEPT ![id] = @ \cup {v}]
    /\ UNCHANGED <<uiVars, bgVars, worldVars, cacheVars, updVars, getVars, svcVars>>

\* db.clear()
DbClear ==
    /\ ext < MaxExt
    /\ ext' = ext + 1
    /\ db' = EmptyMap
    /\ UNCHANGED <<uiVars, bgVars, worldVars, dbSeq, commits, held, cacheVars, updVars, getVars, svcVars>>

\* then() resolves the write with the error it caught instead of a
\* result: a store failure that is not a version conflict.
UStoreFault(p) ==
    /\ ext < MaxExt
    /\ upc[p] = "update"
    /\ ext' = ext + 1
    /\ uresp' = [uresp EXCEPT ![p] = Err("error")]
    /\ ulog' = [ulog EXCEPT ![p].writes = Bump(@),
                            ![p].expected = Record(@, ureq[p].where.version)]
    /\ upc' = [upc EXCEPT ![p] = "updated"]
    /\ UNCHANGED <<uiVars, bgVars, worldVars, storeVars, cacheVars, getVars, svcVars, uargs, attempts, ureq, uresult>>

\* ------------------------------ TemplateFieldProcessor.processTemplateFields
\* The record counts as recently user-edited: it carries a last_user_update
\* less than cooldownMs before t.
RecentlyEdited(storage, id, t) ==
    /\ MapHas(storage, id)
    /\ "last_user_update" \in DOMAIN storage[id]
    /\ t - storage[id].last_user_update < cooldownMs

\* processTemplateFields(templateId) up to its first await: the select.
BgCall(id) ==
    /\ bpc \in {"idle", "done"}
    /\ bruns < MaxBgRuns
    /\ bruns' = bruns + 1
    /\ bid' = id
    /\ btemplate' = EmptyMap
    /\ breq' = NoReq
    /\ blog' = [NoBgLog EXCEPT !.recent = RecentlyEdited(db, id, now)]
    /\ bpc' = "select"
    /\ UNCHANGED <<uiVars, storeVars, cacheVars, updVars, getVars, svcVars, ext, worldVars>>

\* The store serves the select and the run resumes with { data: template }:
\* it returns when there is no template, else it enters
\* performComplexProcessing, which waits 100 ms.
BgSelect ==
    /\ bpc = "select"
    /\ LET r == SelectResult(db, dbSeq, bid)
       IN  IF r.ok
           THEN /\ btemplate' = r.data
                /\ bpc' = "processing"
                /\ blog' = [blog EXCEPT !.reads = @ + 1, !.readAt = commits]
           ELSE /\ btemplate' = EmptyMap
                /\ bpc' = "done"
                /\ blog' = [blog EXCEPT !.reads = @ + 1, !.readAt = commits,
                                        !.returned = "undefined"]
    /\ UNCHANGED <<uiVars, storeVars, cacheVars, updVars, getVars, svcVars, ext, worldVars,
                   bid, breq, bruns>>

\* The update the run issues: .update({ field_definitions, processed_at })
\* .eq('id', templateId)
\* The whole processed template written back instead of the derived fields.
BgRequestWholeRecord(id, processed) ==
    [id |-> id,
     values |-> Spread(processed, [processed_at |-> now]),
     where |-> EmptyMap]
BgRequest(id, processed) ==
    [id |-> id,
     values |-> [field_definitions |-> processed.field_definitions,
                 processed_at |-> now],
     where |-> EmptyMap]

\* performComplexProcessing resumes after its timer: processed is a shallow
\* copy of the template, so marking its field definitions marks the very
\* objects the template refers to; the run then issues its update.
BgProcessed ==
    /\ bpc = "processing"
    /\ fdHeap' = [fdHeap EXCEPT ![btemplate.field_definitions] =
                                   [processed |-> TRUE, processedAt |-> now]]
    /\ breq' = BgRequest(bid, btemplate)
    /\ bpc' = "update"
    /\ UNCHANGED <<uiVars, storeVars, cacheVars, updVars, getVars, svcVars, ext, now,
                   bid, btemplate, blog, bruns>>

\* The store serves the run's update; the run ignores the result and
\* returns (Promise<void>).
BgStoreUpdate ==
    /\ bpc = "update"
    /\ StoreWrite(breq)
    /\ blog' = [blog EXCEPT !.writes = @ + 1,
                            !.commit = IF Applied(db, breq) THEN commits + 1 ELSE @,
                            !.returned = "undefined"]
    /\ bpc' = "done"
    /\ UNCHANGED <<uiVars, cacheVars, updVars, getVars, svcVars, ext, worldVars,
                   bid, btemplate, breq, bruns>>

\* Time passes.
Tick ==
    /\ now < MaxTicks * TickMs
    /\ now' = now + TickMs
    /\ UNCHANGED <<uiVars, storeVars, cacheVars, updVars, getVars, svcVars, ext, bgVars, fdHeap>>

\* The ages of the last user edit a stored fixture may carry: edited just
\* now, or the suite's ten seconds ago.
EditAges == {0, OldEditAgeMs}

\* db.set(template.id, createTestTemplate({ last_user_update })): the
\* record is replaced by a fresh fixture carrying a last user edit.
DbSetEdited(id, age) ==
    /\ ext < MaxExt
    /\ ext' = ext + 1
    /\ db' = MapSet(db, id,
                Spread(createTestTemplate("1.0.0"),
                       [field_definitions |-> FixtureFd(ext + 1),
                        updated_at |-> now,
                        last_user_update |-> now - age]))
    /\ commits' = commits + 1
    /\ dbSeq' = [dbSeq EXCEPT ![id] = commits + 1]
    /\ held' = [held EXCEPT ![id] = @ \cup {"1.0.0"}]
    /\ UNCHANGED <<uiVars, cacheVars, updVars, getVars, svcVars, bgVars, worldVars>>

\* ------------------------------------- TemplateManager and TemplateEditor
\* services/TemplateService.getMockTemplate(id)
getMockTemplate(id) ==
    [id |-> id, name |-> "Template " \o id, sections |-> "mockSections",
     field_definitions |-> "mockFd", version |-> "1.0.0", updated_at |-> now,
     organization_id |-> "org-123", update_count |-> 0]

\* getTemplates() of a service constructed without a client.
getMockTemplates == <<getMockTemplate("template-1"), getMockTemplate("template-2")>>

\* updateTemplate(templateId, updates) of a service constructed without a
\* client, as the manager's is: the mock result.
MockUpdateResult(templateId) ==
    [success |-> TRUE, data |-> getMockTemplate(templateId),
     newVersion |-> ToString(now), error |-> ""]

\* The manager renders the editor: not loading, no error, a template
\* selected.
RendersEditor(m) ==
    /\ ~m.isLoading
    /\ ~Truthy(m.error)
    /\ DOMAIN m.selectedTemplate # {}

\* A TemplateEditor mounts: useState({ ...template }), useState(false),
\* useState(null).
Mount(template) ==
    [mounted |-> TRUE, editedTemplate |-> template,
     isUpdating |-> FALSE, updateMessage |-> ""]

\* The editor after the manager has rendered with state m: an editor
\* that stays rendered keeps its state, one that is rendered anew starts
\* from the selected template, one that is not rendered is gone.
Render(m, e) ==
    IF RendersEditor(m)
    THEN IF e.mounted THEN e ELSE Mount(m.selectedTemplate)
    ELSE [e EXCEPT !.mounted = FALSE]

\* The editor of a running save is the rendered one as long as the
\* editor stays rendered.
StillAlive == save.alive /\ editor.mounted /\ editor'.mounted

\* The manager's state changes to m and it renders.
SetManager(m) ==
    /\ mgr' = m
    /\ editor' = Render(m, editor)

otherVars == <<storeVars, cacheVars, updVars, getVars, svcVars, ext, bgVars, worldVars>>

\* loadTemplates of the mount effect resumes from getTemplates.
loadTemplatesResume ==
    /\ loadpc = "await"
    /\ SetManager([mgr EXCEPT !.templates = getMockTemplates,
                              !.error = "", !.isLoading = FALSE])
    /\ loadpc' = "done"
    /\ UNCHANGED <<otherVars, save>>

\* The list is shown and the user picks a template.
handleSelectTemplate(i) ==
    /\ save.pc = "idle"
    /\ ~mgr.isLoading /\ ~Truthy(mgr.error)
    /\ DOMAIN mgr.selectedTemplate = {}
    /\ i \in 1..Len(mgr.templates)
    /\ SetManager([mgr EXCEPT !.selectedTemplate = mgr.templates[i]])
    /\ UNCHANGED <<otherVars, save, loadpc>>

handleBackToList ==
    /\ save.pc = "idle"
    /\ editor.mounted
    /\ SetManager([mgr EXCEPT !.selectedTemplate = EmptyMap])
    /\ UNCHANGED <<otherVars, save, loadpc>>

\* The values the user types or sets in the editor.
EditedNames == {"Renamed"}
EditedSections == {"editedSections"}

handleNameChange(v) ==
    /\ save.pc = "idle"
    /\ editor.mounted /\ ~editor.isUpdating
    /\ editor' = [editor EXCEPT !.editedTemplate =
                                    Spread(editor.editedTemplate, [name |-> v])]
    /\ UNCHANGED <<otherVars, mgr, save, loadpc>>

handleSectionChange(v) ==
    /\ save.pc = "idle"
    /\ editor.mounted /\ ~editor.isUpdating
    /\ editor' = [editor EXCEPT !.editedTemplate =
                                    Spread(editor.editedTemplate, [sections |-> v])]
    /\ UNCHANGED <<otherVars, mgr, save, loadpc>>

\* handleSave up to its await: setIsUpdating(true), setUpdateMessage(null),
\* then onUpdate = handleUpdateTemplate up to its await: setIsLoading(true)
\* and the call of updateTemplate; the manager renders.
handleSave ==
    /\ save.pc = "idle"
    /\ save.saves < MaxSaves
    /\ editor.mounted /\ ~editor.isUpdating
    /\ LET e == [editor EXCEPT !.isUpdating = TRUE, !.updateMessage = ""]
           m == [mgr EXCEPT !.isLoading = TRUE]
       IN  /\ mgr' = m
           /\ editor' = Render(m, e)
           /\ save' = [pc |-> "update",
                       alive |-> editor'.mounted,
                       editedTemplate |-> editor.editedTemplate,
                       updates |-> [name |-> editor.editedTemplate.name,
                                    sections |-> editor.editedTemplate.sections,
                                    field_definitions |->
                                        editor.editedTemplate.field_definitions,
                                    version |-> editor.editedTemplate.version],
                       result |-> MockUpdateResult(mgr.selectedTemplate.id),
                       saves |-> save.saves + 1]
    /\ UNCHANGED <<otherVars, loadpc>>

\* handleUpdateTemplate resumes with the result of updateTemplate: on
\* success it calls loadTemplates (setIsLoading(true)) and awaits it, else
\* setError, return result, finally setIsLoading(false).
handleUpdateTemplateResume ==
    /\ save.pc = "update"
    /\ IF save.result.success
       THEN /\ SetManager([mgr EXCEPT !.isLoading = TRUE])
            /\ save' = [save EXCEPT !.pc = "load", !.alive = StillAlive]
       ELSE /\ SetManager([mgr EXCEPT !.isLoading = FALSE,
                                      !.error = IF Truthy(save.result.error)
                                                THEN save.result.error
                                                ELSE "Update failed"])
            /\ save' = [save EXCEPT !.pc = "returned", !.alive = StillAlive]
    /\ UNCHANGED <<otherVars, loadpc>>

\* loadTemplates resumes inside handleUpdateTemplate: setTemplates,
\* setError(null), finally setIsLoading(false); then handleUpdateTemplate
\* does setError(null), return result, finally setIsLoading(false).
handleUpdateTemplateReturn ==
    /\ save.pc = "load"
    /\ SetManager([mgr EXCEPT !.templates = getMockTemplates,
                              !.error = "", !.isLoading = FALSE])
    /\ save' = [save EXCEPT !.pc = "returned", !.alive = StillAlive]
    /\ UNCHANGED <<otherVars, loadpc>>

\* The state handleSave's setters leave in the editor that issued the
\* save: the message, on success with a newVersion the edited template of
\* the closure with that version, finally isUpdating false.
AfterSave(e, sv) ==
    IF sv.result.success
    THEN [e EXCEPT !.updateMessage = "Template updated successfully!",
                   !.editedTemplate =
                       IF Truthy(sv.result.newVersion)
                       THEN Spread(sv.editedTemplate,
                                   [version |-> sv.result.newVersion])
                       ELSE @,
                   !.isUpdating = FALSE]
    ELSE [e EXCEPT !.updateMessage = "Update failed: " \o sv.result.error,
                   !.isUpdating = FALSE]

\* handleSave resumes with the result of onUpdate. Its setters belong to
\* the editor that issued the save: they do nothing once that editor has
\* been unmounted.
handleSaveResume ==
    /\ save.pc = "returned"
    /\ editor' = IF save.alive /\ editor.mounted
                 THEN AfterSave(editor, save)
                 ELSE editor
    /\ save' = [save EXCEPT !.pc = "idle", !.alive = FALSE]
    /\ UNCHANGED <<otherVars, mgr, loadpc>>

\* ------------------------------------------------------------ specification
UpdSteps ==
    \/ \E p \in Updaters : USelect(p)
    \/ \E p \in Updaters : UStoreUpdate(p)
    \/ \E p \in Updaters : UAfterUpdate(p)
    \/ \E p \in Updaters : USleepDone(p)

UpdNext ==
    \/ \E p \in Updaters, id \in Ids : \E u \in UpdateChoices(p) : UCall(p, id, u)
    \/ UpdSteps

GetNext ==
    \/ \E r \in Readers, id \in Ids : GCall(r, id)
    \/ \E r \in Readers : GStoreSelect(r)
    \/ \E r \in Readers : GAfterSelect(r)

SvcNext ==
    \/ \E id \in Ids, u \in SvcUpdates : SvcCall(id, u)
    \/ SvcStoreUpdate
    \/ SvcAfterUpdate

EnvNext ==
    \/ \E id \in Ids, v \in ExtVersions : DbSet(id, v)
    \/ DbClear
    \/ \E p \in Updaters : UStoreFault(p)

\* The TemplateService of SOLUTION_SIMPLIFIED on a store nobody else uses.
Next == UpdNext \/ GetNext
Spec == Init /\ [][Next]_vars

\* The same store also written through services/TemplateService.
NextSvc == UpdNext \/ SvcNext
SpecSvc == Init /\ [][NextSvc]_vars

\* services/TemplateService on a store that has other writers and
\* failures.
NextSvcEnv ==
    \/ SvcNext
    \/ \E msg \in FaultMessages : SvcStoreFault(msg)
    \/ \E id \in Ids, v \in ExtVersions : DbSet(id, v)
    \/ DbClear
SpecSvcEnv == Init /\ [][NextSvcEnv]_vars

\* updateTemplate calls of users A and B on a store that has other
\* writers and failures.
EnvCallers == {"A", "B"}
NextEnv ==
    \/ \E p \in EnvCallers, id \in Ids : \E u \in UpdateChoices(p) : UCall(p, id, u)
    \/ UpdSteps
    \/ EnvNext
SpecEnv == Init /\ [][NextEnv]_vars

\* The changes the user makes while the background job runs: a rename, or
\* new field definitions.
BgUserChoices == { [name |-> "U"], [field_definitions |-> UserFd] }

BgNext ==
    \/ \E id \in Ids : BgCall(id)
    \/ BgSelect
    \/ BgProcessed
    \/ BgStoreUpdate

\* One user (A) calling updateTemplate while the background job runs on
\* the same record, with time passing and fixtures being stored.
NextBg ==
    \/ \E id \in Ids, u \in BgUserChoices : UCall("A", id, u)
    \/ UpdSteps
    \/ BgNext
    \/ Tick
    \/ \E id \in Ids, age \in EditAges : DbSetEdited(id, age)
SpecBg == Init /\ [][NextBg]_vars

\* A reader calling getTemplate while the background job runs on the same
\* record, fixtures are being stored and the store is cleared.
NextBgCache ==
    \/ GetNext
    \/ BgNext
    \/ \E id \in Ids, age \in EditAges : DbSetEdited(id, age)
    \/ DbClear
SpecBgCache == Init /\ [][NextBgCache]_vars

\* The ids clearCache is called with: ids of records, and the empty string.
ClearArgs == CacheIds \cup {""}

\* clearCache calls on a filled cache.
NextClear == \E id \in ClearArgs : ClearCache(id)
SpecClear == InitCached /\ [][NextClear]_vars

UiSteps ==
    \/ loadTemplatesResume
    \/ handleUpdateTemplateResume
    \/ handleUpdateTemplateReturn
    \/ handleSaveResume

\* A user working in the TemplateManager: selecting, editing, saving and
\* going back, with time passing; every pending promise resolves.
NextUi ==
    \/ UiSteps
    \/ \E i \in 1..2 : handleSelectTemplate(i)
    \/ handleBackToList
    \/ \E v \in EditedNames : handleNameChange(v)
    \/ \E v \in EditedSections : handleSectionChange(v)
    \/ handleSave
    \/ Tick
SpecUi == Init /\ [][NextUi]_vars /\ WF_vars(UiSteps)

\* updateTemplate calls that are never starved: every store call and
\* every backoff wait of a running call completes.
Fairness ==
    \A p \in Updaters :
        WF_vars(USelect(p) \/ UStoreUpdate(p) \/ UAfterUpdate(p) \/ USleepDone(p))
SpecLive == SpecEnv /\ Fairness

\* ------------------------------------------------------------- properties
Done(p) == upc[p] = "done"
Succeeded(p) == Done(p) /\ uresult[p].success
Failed(p) == Done(p) /\ ~uresult[p].success
Started == { p \in Updaters : upc[p] # "idle" }
\* The record holds every field of a call's change set.
Holds(rec, updates) == \A f \in DOMAIN updates : f \in DOMAIN rec /\ rec[f] = updates[f]

\* What a compare-and-swap on the version does with request req: it
\* commits exactly when the stored version is the expected one, and a
\* rejected request changes nothing and yields an error.
CasOutcome(req, resp) ==
    IF MapHas(db, req.id) /\ db[req.id].version = req.where.version
    THEN resp.ok /\ db' = MapSet(db, req.id, Spread(db[req.id], req.values))
    ELSE ~resp.ok /\ db' = db

\* C1: a conditional write is applied only if the stored version equals
\* the expected version at commit, whatever expected value the caller
\* supplies; otherwise the record is unchanged and the caller gets an error.
C1_ConditionalWrite ==
    [][ /\ \A p \in Updaters : UStoreUpdate(p) => CasOutcome(ureq[p], uresp'[p])
        /\ SvcStoreUpdate => CasOutcome(svcReq, svcResp') ]_vars

\* Two calls whose committed writes were both in flight before either
\* was served.
Overlapping(p, q) ==
    /\ ulog[p].commit > 0 /\ ulog[q].commit > 0
    /\ Last(ulog[p].issued) < ulog[q].commit
    /\ Last(ulog[q].issued) < ulog[p].commit

\* C2: of two concurrent updateTemplate calls on one id that issue their
\* conditional writes with the same expected version, at most one commits.
C2_OneWinnerPerVersion ==
    \A p, q \in Updaters :
        ( /\ p # q
          /\ uargs[p].id = uargs[q].id
          /\ Overlapping(p, q) )
        => Last(ulog[p].expected) # Last(ulog[q].expected)

\* C3: every committed updateTemplate write replaces the stored version
\* with a token the record has never held before (the one it read included).
C3_FreshVersion ==
    [][ \A p \in Updaters :
          (UStoreUpdate(p) /\ Applied(db, ureq[p]))
          => db'[ureq[p].id].version \notin held[ureq[p].id] ]_vars

\* Exactly the two calls p and q were made, and both have returned.
OnlyPair(p, q) ==
    /\ p # q
    /\ Started = {p, q}
    /\ Done(p) /\ Done(q)
    /\ uargs[p].id = uargs[q].id

Disjoint(p, q) == (DOMAIN uargs[p].updates) \cap (DOMAIN uargs[q].updates) = {}

\* C4: after two concurrent updateTemplate calls on one id with disjoint
\* change sets and no other writer, the stored record holds both changes.
C4_NoLostUpdate ==
    \A p, q \in Updaters :
        (OnlyPair(p, q) /\ Disjoint(p, q))
        => /\ Holds(db[uargs[p].id], uargs[p].updates)
           /\ Holds(db[uargs[q].id], uargs[q].updates)

C4_Witness ==
    \E p, q \in Updaters :
        /\ OnlyPair(p, q) /\ Disjoint(p, q)
        /\ ulog[p].conflicts = 1
        /\ Holds(db[uargs[p].id], uargs[p].updates)
        /\ Holds(db[uargs[q].id], uargs[q].updates)

\* Both calls read the record before any write was served.
BothReadFirst(p, q) ==
    /\ ulog[p].issued # <<>> /\ ulog[p].issued[1] = 0
    /\ ulog[q].issued # <<>> /\ ulog[q].issued[1] = 0

\* C5: when exactly two updateTemplate calls read the same version before
\* either writes, both succeed, one on its first attempt and the other
\* after exactly one conflict, and the stored version changes exactly twice.
C5_TwoCallScenario ==
    \A p, q \in Updaters :
        (OnlyPair(p, q) /\ BothReadFirst(p, q))
        => /\ Succeeded(p) /\ Succeeded(q)
           /\ {ulog[p].conflicts, ulog[q].conflicts} = {0, 1}
           /\ {ulog[p].writes, ulog[q].writes} = {1, 2}
           /\ Cardinality(held[uargs[p].id]) = 3

\* C6: a getTemplate(id) call that starts after an updateTemplate(id) call
\* returned success never returns a record older than that update's commit.
C6_CacheCoherence ==
    \A r \in Readers :
        (gpc[r] = "done" /\ gresult[r].success) => gresp[r].seq >= gfloor[r]

\* C7: when an updateTemplate call has returned success for id, the cache
\* holds no entry for id that was installed before that call's commit.
C7_InvalidateBeforeSuccess ==
    \A p \in Updaters :
        (Succeeded(p) /\ MapHas(cache, uargs[p].id))
        => cacheMeta[uargs[p].id].at >= ulog[p].commit

C7_Witness ==
    \E p \in Updaters :
        /\ Succeeded(p)
        /\ ulog[p].evicted
        /\ ~MapHas(cache, uargs[p].id)

\* C8: a call whose conditional writes all conflict issues at most
\* MAX_RETRIES of them and then returns success:false.
C8_BoundedRetry ==
    \A p \in Updaters :
        /\ ulog[p].writes <= MAX_RETRIES
        /\ ulog[p].conflicts = MAX_RETRIES
           => /\ upc[p] \in {"updated", "done"}
              /\ Done(p) => ~uresult[p].success

C8_Witness ==
    \E p \in Updaters :
        /\ Failed(p)
        /\ ulog[p].conflicts = MAX_RETRIES
        /\ ulog[p].writes = MAX_RETRIES

\* C9: every updateTemplate call eventually returns, whatever the store
\* answers and whatever other writers do.
C9_Terminates ==
    \A p \in Updaters : (upc[p] # "idle") ~> Done(p)

C9_Witness ==
    \E p \in Updaters :
        /\ Failed(p)
        /\ ext > 0
        /\ ulog[p].reads = MAX_RETRIES

\* C10: of any number of concurrent updateTemplate calls on one existing
\* id, with the store failing only by version conflict, at least one
\* returns success.
C10_SomeoneSucceeds ==
    (Started # {} /\ \A p \in Started : Done(p))
    => \E p \in Started : Succeeded(p)

C10_Witness ==
    /\ Started = Updaters
    /\ \A p \in Updaters : Done(p)
    /\ \E p \in Updaters : Failed(p)

\* All three users have called updateTemplate on one id and have returned.
AllThree ==
    /\ Started = Updaters
    /\ \A p \in Updaters : Done(p)
    /\ \A p, q \in Updaters : uargs[p].id = uargs[q].id

PairwiseDisjoint == \A p, q \in Updaters : p # q => Disjoint(p, q)

\* C11: when users A, B and C call updateTemplate concurrently on one id
\* with pairwise disjoint change sets, all three calls succeed and the
\* stored record holds all three changes.
C11_ThreeDisjointCalls ==
    (AllThree /\ PairwiseDisjoint)
    => \A p \in Updaters :
          /\ Succeeded(p)
          /\ Holds(db[uargs[p].id], uargs[p].updates)

\* C12: a processTemplateFields run called on a record whose last user
\* edit is less than cooldownMs old issues no store write and reports
\* the run as skipped.
C12_BackgroundDeference ==
    blog.recent
    => /\ blog.writes = 0
       /\ bpc = "done" => blog.returned = "skipped"

\* C13: the background processor's write is conditional on the version
\* the run read: when the stored version has changed since the run's
\* read, the write changes nothing.
C13_BackgroundConditionalWrite ==
    [][ BgStoreUpdate
        => ( (MapHas(db, bid) /\ db[bid].version # btemplate.version)
             => db' = db ) ]_vars

\* The user's write committed after the run's read and before the run's
\* write was served, and nothing was written since the run finished.
DuringRun(p) ==
    /\ bpc = "done" /\ blog.writes > 0
    /\ uargs[p].id = bid
    /\ ulog[p].commit > blog.readAt
    /\ blog.commit > ulog[p].commit
    /\ dbSeq[bid] = blog.commit

\* C14: a field_definitions change a user commits between the background
\* run's read and its write is still in the stored record when the run
\* finishes.
C14_UserChangeSurvives ==
    \A p \in Updaters :
        (DuringRun(p) /\ "field_definitions" \in DOMAIN uargs[p].updates)
        => db[bid].field_definitions = uargs[p].updates.field_definitions

\* The fields a background run has to leave alone.
FrameFields == {"name", "description", "sections", "last_user_update"}
SameField(a, b, f) ==
    /\ f \in DOMAIN a <=> f \in DOMAIN b
    /\ f \in DOMAIN a => a[f] = b[f]

\* C15: no step of a background run changes name, description, sections
\* or last_user_update of a stored record.
C15_BackgroundFrame ==
    [][ BgNext
        => \A id \in Ids :
              /\ MapHas(db, id) <=> MapHas(db', id)
              /\ MapHas(db, id)
                 => \A f \in FrameFields : SameField(db[id], db'[id], f) ]_vars

C15_Witness ==
    \E p \in Updaters :
        /\ DuringRun(p)
        /\ "name" \in DOMAIN uargs[p].updates
        /\ db[bid].name = uargs[p].updates.name
        /\ "processed_at" \in DOMAIN db[bid]
        /\ "last_user_update" \in DOMAIN db[bid]

\* C16: every committed updateTemplate write leaves the record with a
\* last_user_update that is the time of that write (between the moment
\* the write was built, which it stores as updated_at, and now).
C16_LastUserUpdate ==
    [][ \A p \in Updaters :
          (UStoreUpdate(p) /\ Applied(db, ureq[p]))
          => LET rec == db'[ureq[p].id]
             IN  /\ "last_user_update" \in DOMAIN rec
                 /\ rec.last_user_update >= ureq[p].values.updated_at
                 /\ rec.last_user_update <= now ]_vars

\* C17: a conditional write that fails with a store error other than a
\* version conflict ends the call with failure at once: no further read
\* or write follows.
C17_FailFast ==
    [][ \A p \in Updaters :
          (UAfterUpdate(p) /\ ~uresp[p].ok /\ uresp[p].code # "PGRST116")
          => (upc'[p] = "done" /\ ~uresult'[p].success) ]_vars

\* The call has returned and none of its reads found a record.
FoundNothing(p) == Done(p) /\ ulog[p].reads > 0 /\ ulog[p].issued = <<>>

\* C18: updateTemplate on an id without a record reads the store exactly
\* once, writes nothing and returns failure.
C18_NotFoundNoRetry ==
    \A p \in Updaters :
        FoundNothing(p)
        => /\ ulog[p].reads = 1
           /\ ulog[p].writes = 0
           /\ ~uresult[p].success

\* C19: a finished updateTemplate call has returned a result object with
\* a boolean success field, whatever the store did.
C19_AlwaysResolves ==
    \A p \in Updaters :
        Done(p) => /\ uresult[p].returned
                   /\ uresult[p].success \in BOOLEAN

C19_Witness ==
    \E p, q \in Updaters :
        /\ Failed(p) /\ uresult[p].returned
        /\ uresp[p].code = "error"
        /\ ulog[p].conflicts > 0
        /\ Succeeded(q)

\* What a failed call went through: the store answer that ended it, the
\* attempts it made and the last version it read.
Diagnosis(p) ==
    <<uresp[p].code, attempts[p],
      IF ulog[p].expected = <<>> THEN "" ELSE Last(ulog[p].expected)>>

\* C20: the result of a failed updateTemplate call determines the kind of
\* failure, the attempt count and the last version observed: two failed
\* calls that differ in any of these return different results.
C20_FailureDiagnosable ==
    \A p, q \in Updaters :
        (Failed(p) /\ Failed(q) /\ Diagnosis(p) # Diagnosis(q))
        => uresult[p] # uresult[q]

\* The fields every updateTemplate write maintains by itself.
Bookkeeping == {"version", "updated_at", "last_user_update"}

\* C21: a committed updateTemplate write stores, for each key of the
\* change set, exactly the supplied value (the supplied object, and no
\* object is modified in place), and every other stored field except
\* version, updated_at and last_user_update keeps its value.
C21_WholeFieldReplacement ==
    [][ \A p \in Updaters :
          (UStoreUpdate(p) /\ Applied(db, ureq[p]))
          => LET id == ureq[p].id
                 changes == uargs[p].updates
             IN  /\ \A f \in DOMAIN changes :
                       f \in DOMAIN db'[id] /\ db'[id][f] = changes[f]
                 /\ \A f \in ((DOMAIN db[id]) \cup (DOMAIN db'[id]))
                               \ ((DOMAIN changes) \cup Bookkeeping) :
                       SameField(db[id], db'[id], f)
                 /\ fdHeap' = fdHeap ]_vars

C21_Witness ==
    \E p \in Updaters :
        /\ Succeeded(p)
        /\ dbSeq[uargs[p].id] = ulog[p].commit
        /\ "field_definitions" \in DOMAIN uargs[p].updates
        /\ db[uargs[p].id].field_definitions = UserFd
        /\ db[uargs[p].id].name = "Original Name"
        /\ "processed_at" \in DOMAIN db[uargs[p].id]
        /\ "last_user_update" \in DOMAIN db[uargs[p].id]

\* C22: once a background write to an id has committed, getTemplate(id)
\* returns no cache entry that was populated before that commit.
C22_BackgroundInvalidates ==
    [][ \A r \in Readers, id \in Ids :
          (GCall(r, id) /\ MapHas(cache, id) /\ bid = id /\ blog.commit > 0)
          => cacheMeta[id].at >= blog.commit ]_vars

\* C23: a committed background write replaces the record's version with
\* a value the record has not held, so that a conditional write expecting
\* the version read before it no longer applies.
C23_BackgroundBumpsVersion ==
    [][ (BgStoreUpdate /\ Applied(db, breq))
        => /\ db'[bid].version # db[bid].version
           /\ db'[bid].version \notin held[bid] ]_vars

\* The time since the call began.
Elapsed(p) == now - ulog[p].startedAt

\* C24: an updateTemplate call starts no attempt (neither after a
\* backoff nor after an error) once deadlineMs have elapsed since it
\* began.
C24_Deadline ==
    [][ \A p \in Updaters :
          (upc[p] # "idle" /\ attempts'[p] # attempts[p])
          => Elapsed(p) < deadlineMs ]_vars

\* C25: within one updateTemplate call the delay waited before an
\* attempt is never shorter than the delay waited before the attempt
\* preceding it (the first attempt is immediate).
C25_MonotonicBackoff ==
    \A p \in Updaters :
        \A k \in 2..Len(ulog[p].waited) :
            ulog[p].waited[k] >= ulog[p].waited[k - 1]

C25_Witness ==
    \E p, q \in Updaters :
        /\ Done(p) /\ ulog[p].waited = <<0, BackoffMs(1)>>
        /\ Done(q) /\ ulog[q].waited = <<0, 0>>

\* C26: getTemplate(id) with a cache entry for id returns that entry at
\* once, without a store read; without an entry it reads the store
\* exactly once and, given a record, caches it under id and returns it.
C26_GetTemplate ==
    [][ \A r \in Readers :
          /\ \A id \in Ids :
                GCall(r, id)
                => IF MapHas(cache, id)
                   THEN /\ gpc'[r] = "done"
                        /\ greads'[r] = 0
                        /\ gresult'[r] = Success(cache[id])
                        /\ cache' = cache
                   ELSE gpc'[r] = "select"
          /\ GAfterSelect(r)
             => /\ gpc'[r] = "done"
                /\ greads'[r] = 1
                /\ gresp[r].ok
                   => /\ cache' = MapSet(cache, gargs[r], gresp[r].data)
                      /\ gresult'[r] = Success(gresp[r].data) ]_vars

C26_Witness ==
    \E r \in Readers :
        /\ gcalls[r] = 2 /\ gpc[r] = "done"
        /\ greads[r] = 0
        /\ gresult[r].success
        /\ MapHas(cache, gargs[r]) /\ gresult[r].data = cache[gargs[r]]

\* C27: getTemplate(id) finding no record returns null (it does not
\* throw) and leaves the cache without an entry for id.
C27_GetMissingReturnsNull ==
    [][ \A r \in Readers :
          (GAfterSelect(r) /\ ~gresp[r].ok)
          => /\ gpc'[r] = "done"
             /\ gresult'[r] = Failure
             /\ ~MapHas(cache', gargs[r]) ]_vars

\* The reader's first call found nothing, a record was stored, and the
\* second call read and returned it.
C27_Witness ==
    \E r \in Readers :
        /\ gcalls[r] = 2 /\ gpc[r] = "done"
        /\ greads[r] = 1
        /\ gresult[r].success
        /\ "last_user_update" \in DOMAIN gresult[r].data

\* C28: clearCache(id) removes the entry of id and changes no entry of
\* another id; on an id without an entry it changes nothing, and a second
\* call changes nothing the first has not.
C28_ClearCache ==
    [][ \A id \in ClearArgs :
          ClearCache(id)
          => /\ ~MapHas(cache', id)
             /\ \A k \in DOMAIN cache :
                   k # id => (MapHas(cache', k) /\ cache'[k] = cache[k])
             /\ ~MapHas(cache, id) => cache' = cache
             /\ clearCache(cache', id) = cache' ]_vars

\* C29: when a call that has met a conflict gets a conditional write
\* served, the last answer the store delivered to it is that of a
\* successful read (served after the conflict), and the write expects
\* the version that read returned.
C29_RereadAfterConflict ==
    [][ \A p \in Updaters :
          ((UStoreUpdate(p) \/ UStoreFault(p)) /\ ulog[p].conflicts > 0)
          => /\ uresp[p].ok
             /\ ureq[p].where.version = uresp[p].data.version
             /\ uresp[p].seq = Last(ulog[p].issued) ]_vars

C29_Witness ==
    \E p \in Updaters :
        /\ Succeeded(p)
        /\ ulog[p].conflicts = 1
        /\ Len(ulog[p].expected) = 2
        /\ ulog[p].expected[1] # ulog[p].expected[2]
        /\ ext > 0

RECURSIVE Pow(_, _)
Pow(b, n) == IF n = 0 THEN 1 ELSE b * Pow(b, n - 1)

\* C30: the k-th backoff an updateTemplate call waits (after its k-th
\* conflicting attempt) is baseBackoffMs * backoffMultiplier^(k-1).
C30_BackoffFormula ==
    \A p \in Updaters :
        \A k \in 1..Len(ulog[p].delays) :
            ulog[p].delays[k] = baseBackoffMs * Pow(backoffMultiplier, k - 1)

C30_Witness ==
    \E p \in Updaters :
        /\ Done(p)
        /\ ulog[p].conflicts > 0
        /\ ulog[p].delays = <<baseBackoffMs>>
        /\ ulog[p].waited = <<0, baseBackoffMs>>

\* C31: a call that returned success:true has had exactly one of its
\* writes committed and returns the record that commit stored; a call
\* that returned success:false has had none committed.
C31_SuccessIffOneCommit ==
    \A p \in Updaters :
        /\ Succeeded(p) => /\ ulog[p].committed = 1
                           /\ uresult[p].data = ulog[p].stored
        /\ Failed(p) => ulog[p].committed = 0

C31_Witness ==
    \E p, q \in Updaters :
        /\ Succeeded(p) /\ ulog[p].writes = 2 /\ ulog[p].committed = 1
        /\ uresult[p].data = ulog[p].stored
        /\ Failed(q) /\ ulog[q].writes = 2 /\ ulog[q].committed = 0

\* C32: a write of services/TemplateService commits only if the stored
\* version is the one the service last recorded for the id, the first
\* update of an id (no cache entry, nothing recorded) included.
C32_ServiceOptimisticLocking ==
    [][ (SvcStoreUpdate /\ Applied(db, svcReq))
        => /\ MapHas(svcCache, svcReq.id)
           /\ db[svcReq.id].version = svcCache[svcReq.id].version ]_vars

\* C33: the service's cache changes only when updateTemplate resumes
\* from a confirmed write; a call whose write failed (by conflict or by
\* any other error) leaves the cache as it was and returns success:false
\* with an error.
C33_CacheAfterConfirmation ==
    [][ /\ svcCache' # svcCache => (SvcAfterUpdate /\ svcResp.ok)
        /\ (SvcAfterUpdate /\ ~svcResp.ok)
           => /\ svcCache' = svcCache
              /\ svcpc' = "done"
              /\ svcResult'.returned /\ ~svcResult'.success
              /\ svcResult'.error.name \in {"VersionConflictError",
                                            "UpdateFailedError"} ]_vars

\* The second call failed by conflict and the entry written by the
\* first is still there.
C33_Witness ==
    /\ svcCalls = 2 /\ svcpc = "done"
    /\ ~svcResult.success
    /\ svcResp.code = "PGRST116"
    /\ MapHas(svcCache, svcReq.id)
    /\ svcCache[svcReq.id].version = svcReq.where.version
    /\ db[svcReq.id].version # svcReq.where.version

\* The field_definitions objects that stored records and the snapshots
\* held in the cache refer to.
SharedFdObjs ==
    { db[id].field_definitions : id \in DOMAIN db }
    \cup { cache[id].field_definitions : id \in DOMAIN cache }

\* C34: performComplexProcessing modifies no object that a stored record
\* or a cached snapshot refers to: until the processor's write commits,
\* the stored record and the snapshots read as they did before.
C34_NoInPlaceModification ==
    [][ BgProcessed => \A o \in SharedFdObjs : fdHeap'[o] = fdHeap[o] ]_vars

\* A save has completed with success:true.
SaveSucceeded == save.pc = "idle" /\ save.saves > 0 /\ save.result.success
\* The editor shows the version the save returned and the values the
\* save submitted.
ShowsSaved ==
    /\ editor.mounted
    /\ editor.editedTemplate.version = save.result.newVersion
    /\ editor.editedTemplate.name = save.updates.name
    /\ editor.editedTemplate.sections = save.updates.sections
    /\ editor.editedTemplate.field_definitions = save.updates.field_definitions

\* C35: once a save issued from the editor has completed with
\* success:true, the editor comes to show the returned newVersion
\* together with the edited values; and when a save has completed,
\* whatever its outcome, the editor is not in its updating state.
C35_EditorAfterSave ==
    /\ SaveSucceeded ~> ShowsSaved
    /\ []((save.pc = "idle" /\ save.saves > 0) => ~editor.isUpdating)

====
